---- MODULE Spec2Model ----
(***************************************************************************)
(* Model of the SARIF upload pipeline (src/upload-lib.ts) and of the       *)
(* status-report channel (src/actions-util.ts) of the CodeQL action.       *)
(*                                                                         *)
(* Strings are modelled as sequences of tokens, so that a string has a     *)
(* length, JSON.stringify / JSON.parse are real conversions, and the       *)
(* gzip+base64 encoding is a conversion with an inverse.                   *)
(***************************************************************************)
EXTENDS Integers, Sequences, FiniteSets, TLC

(***************************************************************************)
(* Bounds of the model.                                                    *)
(***************************************************************************)
\* longest list of SARIF files handed to one upload attempt
MaxFiles == 2
\* longest list of SARIF files handed to a direct combineSarifFiles call
MaxCombine == 3
\* number of upload requests of one mode a job is followed for
MaxRequests == 2
\* the instants of a job's clock
MaxTime == 2
\* how many of the variables of a workflow run a job may lack
MaxAbsent == 1

(***************************************************************************)
(* JavaScript values.                                                      *)
(***************************************************************************)
\* the value of an environment variable that is not set
Undefined == "undefined"
\* JSON null
Null == "null"

Mode == {"actions", "standalone"}

(***************************************************************************)
(* SARIF documents.  A result is a record carrying whether it has          *)
(* fingerprints; a run has a tool name and a list of results.              *)
(***************************************************************************)
Res == [fp |-> FALSE]
ResFp == [fp |-> TRUE]

RunCodeql2 == [tool |-> "codeql", results |-> <<Res, Res>>]
RunEslint0 == [tool |-> "eslint", results |-> <<>>]
RunCodeql3 == [tool |-> "codeql", results |-> <<Res, ResFp, Res>>]
RunSemmle1 == [tool |-> "semmle", results |-> <<Res>>]

\* The files on disk: name, parsed content (version, runs) and the errors
\* the JSON-schema validator reports for the content.
FileA == [name |-> "a.sarif", version |-> "2.1.0", runs |-> <<RunCodeql2>>, errors |-> <<>>]
FileB == [name |-> "b.sarif", version |-> "2.1.0", runs |-> <<RunEslint0>>, errors |-> <<>>]
FileC == [name |-> "c.sarif", version |-> "2.1.0",
          runs |-> <<RunCodeql2, RunEslint0, RunCodeql3>>, errors |-> <<>>]
FileD == [name |-> "d.sarif", version |-> "2.0.0", runs |-> <<RunSemmle1>>, errors |-> <<>>]
FileE == [name |-> "e.sarif", version |-> "2.1.0", runs |-> <<RunSemmle1>>,
          errors |-> <<"runs[0].tool", "runs[0].results[0].message">>]
FileN == [name |-> "n.sarif", version |-> Null, runs |-> <<>>,
          errors |-> <<"version">>]
FileT == [name |-> "notes.txt", version |-> "2.1.0", runs |-> <<>>, errors |-> <<"$schema">>]

\* files an upload is asked for
Files == {FileA, FileB, FileC, FileD, FileE, FileT}
\* files combineSarifFiles is called on directly
CombineFiles == {FileA, FileB, FileC, FileD, FileN}

\* f.endsWith(".sarif")
EndsWithSarif(name) == name \in {"a.sarif", "b.sarif", "c.sarif", "d.sarif", "e.sarif", "n.sarif"}

SeqsUpTo(S, n) == UNION {[1..k -> S] : k \in 0..n}

\* the lists of up to n distinct elements of S
DistinctSeqsUpTo(S, n) ==
    {s \in SeqsUpTo(S, n) : \A i, j \in 1..Len(s) : i # j => s[i] # s[j]}

(***************************************************************************)
(* Generic helpers.                                                        *)
(***************************************************************************)
RECURSIVE Flatten(_)
Flatten(ss) ==
    IF ss = <<>> THEN <<>> ELSE Head(ss) \o Flatten(Tail(ss))

RECURSIVE SumSeq(_)
SumSeq(s) ==
    IF s = <<>> THEN 0 ELSE Head(s) + SumSeq(Tail(s))

(***************************************************************************)
(* JSON.stringify and JSON.parse of a SARIF document.                      *)
(***************************************************************************)
StringifyResult(r) == IF r.fp THEN <<"res", "fp">> ELSE <<"res">>

StringifyRun(r) ==
    <<"{", r.tool>>
        \o Flatten([i \in 1..Len(r.results) |-> StringifyResult(r.results[i])])
        \o <<"}">>

JSONstringify(doc) ==
    <<doc.version>> \o Flatten([i \in 1..Len(doc.runs) |-> StringifyRun(doc.runs[i])])

RECURSIVE ParseRuns(_, _)
ParseRuns(toks, acc) ==
    IF toks = <<>> THEN acc
    ELSE LET t == Head(toks)
             n == Len(acc)
         IN CASE t = "{" ->
                   ParseRuns(Tail(Tail(toks)),
                             Append(acc, [tool |-> toks[2], results |-> <<>>]))
              [] t = "res" ->
                   ParseRuns(Tail(toks),
                             [acc EXCEPT ![n].results = Append(@, Res)])
              [] t = "fp" ->
                   ParseRuns(Tail(toks),
                             [acc EXCEPT ![n].results[Len(acc[n].results)] = ResFp])
              [] OTHER -> ParseRuns(Tail(toks), acc)

JSONparse(s) == [version |-> Head(s), runs |-> ParseRuns(Tail(s), <<>>)]

(***************************************************************************)
(* Errors are messages: sequences of strings; <<>> stands for "no error".  *)
(***************************************************************************)
NoError == <<>>
DuplicateUploadError ==
    <<"Aborting upload: only one run of the codeql/analyze or codeql/upload-sarif actions is allowed per job">>
PathError == <<"Path does not exist">>
NoFilesError == <<"No SARIF files found to upload in">>
VersionError(v1, v2) == <<"Different SARIF versions encountered", v1, v2>>
SchemaError(name, stacks) ==
    <<"Unable to upload", name, "as it is not valid SARIF">> \o stacks
\* what client.request throws when the transport fails
TransportError == <<"HttpError">>

(***************************************************************************)
(* upload-lib.ts: the pure parts of the pipeline.                          *)
(***************************************************************************)
\* fs.readFileSync(sarifFile, "utf8"): the text of the file
readFileSync(file) == JSONstringify([version |-> file.version, runs |-> file.runs])

\* MUTANT of combineLoop: the runs of a file are put in front of the runs
\* gathered so far
RECURSIVE combineLoopPrepend(_, _, _)
combineLoopPrepend(sarifFiles, i, combinedSarif) ==
    IF i > Len(sarifFiles)
    THEN [error |-> NoError, value |-> JSONstringify(combinedSarif)]
    ELSE LET sarifObject == JSONparse(readFileSync(sarifFiles[i]))
         IN IF combinedSarif.version = Null
            THEN combineLoopPrepend(sarifFiles, i + 1,
                     [version |-> sarifObject.version,
                      runs |-> sarifObject.runs \o combinedSarif.runs])
            ELSE IF combinedSarif.version # sarifObject.version
            THEN [error |-> VersionError(combinedSarif.version, sarifObject.version),
                  value |-> <<>>]
            ELSE combineLoopPrepend(sarifFiles, i + 1,
                     [version |-> combinedSarif.version,
                      runs |-> sarifObject.runs \o combinedSarif.runs])

\* The loop of combineSarifFiles from file i on, combinedSarif being the
\* accumulator; returns the JSON text, or the error thrown.
RECURSIVE combineLoop(_, _, _)
combineLoop(sarifFiles, i, combinedSarif) ==
    IF i > Len(sarifFiles)
    THEN [error |-> NoError, value |-> JSONstringify(combinedSarif)]
    ELSE LET sarifObject == JSONparse(readFileSync(sarifFiles[i]))
         IN IF combinedSarif.version = Null
            THEN combineLoop(sarifFiles, i + 1,
                     [version |-> sarifObject.version,
                      runs |-> combinedSarif.runs \o sarifObject.runs])
            ELSE IF combinedSarif.version # sarifObject.version
            THEN [error |-> VersionError(combinedSarif.version, sarifObject.version),
                  value |-> <<>>]
            ELSE combineLoop(sarifFiles, i + 1,
                     [version |-> combinedSarif.version,
                      runs |-> combinedSarif.runs \o sarifObject.runs])

combineSarifFiles(sarifFiles) ==
    combineLoop(sarifFiles, 1, [version |-> Null, runs |-> <<>>])

\* MUTANT of countResultsInSarif: only the first run is counted
countResultsInSarifFirstRun(sarif) ==
    LET runs == JSONparse(sarif).runs
    IN IF runs = <<>> THEN 0 ELSE Len(runs[1].results)

\* countResultsInSarif, lines 139-145
countResultsInSarif(sarif) ==
    LET runs == JSONparse(sarif).runs
    IN SumSeq([i \in 1..Len(runs) |-> Len(runs[i].results)])

\* new jsonschema.Validator().validate(sarif, schema).errors: the stack of
\* every violation the validator finds in the file
validatorErrors(file) == file.errors

\* MUTANT of validateSarifFileSchema: the message names the first violation only
validateSarifFileSchemaFirstError(file) ==
    LET errors == validatorErrors(file)
    IN IF errors # <<>>
       THEN SchemaError(file.name, <<errors[1]>>)
       ELSE NoError

\* validateSarifFileSchema: the error thrown, NoError for a valid file
validateSarifFileSchema(file) ==
    LET errors == validatorErrors(file)
    IN IF errors # <<>>
       THEN SchemaError(file.name, errors)
       ELSE NoError

\* fingerprints.addFingerprints: every result gets its fingerprints; results
\* that have them keep them
addFingerprints(sarifPayload) ==
    LET doc == JSONparse(sarifPayload)
    IN JSONstringify(
         [version |-> doc.version,
          runs |-> [i \in 1..Len(doc.runs) |->
                      [tool |-> doc.runs[i].tool,
                       results |-> [j \in 1..Len(doc.runs[i].results) |-> ResFp]]]])

\* zlib.gzipSync(s).toString("base64") and its inverse
gzipBase64(s) == <<"base64", "gzip">> \o s
gunzipBase64(z) == SubSeq(z, 3, Len(z))

\* util.getToolNames: the distinct tool names of the runs, in order
RECURSIVE distinctTools(_, _)
distinctTools(runs, seen) ==
    IF runs = <<>> THEN seen
    ELSE IF \E i \in 1..Len(seen) : seen[i] = Head(runs).tool
    THEN distinctTools(Tail(runs), seen)
    ELSE distinctTools(Tail(runs), Append(seen, Head(runs).tool))

getToolNames(sarifPayload) == distinctTools(JSONparse(sarifPayload).runs, <<>>)

\* toolNames[0]
firstToolName(toolNames) == IF toolNames = <<>> THEN Undefined ELSE toolNames[1]

(***************************************************************************)
(* The state.                                                              *)
(***************************************************************************)
VARIABLES
    env,            \* process.env, exported variables included
    jobFailed,      \* whether core.setFailed has been called
    numRequests,    \* upload requests sent over the network in this job, by mode
    pc,             \* where the current call of upload is
    mode,           \* the mode argument of the current call of upload
    sarifFiles,     \* the files uploadFiles was given
    trace,          \* the steps the current call of upload has taken, in order
    sarifPayload,   \* local of uploadFiles
    zipped_sarif,   \* local of uploadFiles
    toolNames,      \* local of uploadFiles
    payload,        \* local of uploadFiles: <<>> until assembled
    requests,       \* the network requests the current call of upload has issued,
                    \* each with whether it threw
    result,         \* <<>>, or the UploadStatusReport the call returned
    error,          \* NoError, or the error the call threw
    sr,             \* the last call of sendStatusReport
    report,         \* the last call of createStatusReportBase
    keyCall,        \* the last call of getAnalysisKey made on its own
    combineArg,     \* the argument of a direct call of combineSarifFiles
    combineRet      \* <<>>, or what that call returned or threw

frame == <<mode, sarifFiles, trace, sarifPayload, zipped_sarif, toolNames, payload,
           requests, result, error>>
job == <<env, jobFailed, numRequests>>
combineVars == <<combineArg, combineRet>>
vars == <<env, jobFailed, numRequests, pc, mode, sarifFiles, trace, sarifPayload,
          zipped_sarif, toolNames, payload, requests, result, error, sr,
          report, keyCall, combineArg, combineRet>>

GITHUB_DOTCOM_URL == "https://github.com"
GHES_URL == "https://ghes.example.com"

\* no call of sendStatusReport yet, or its frame is gone
NoCall == [called |-> FALSE, ignoreFailures |-> Undefined, sent |-> FALSE,
           threw |-> FALSE, status |-> 0, returned |-> Undefined, error |-> NoError]

\* no call of createStatusReportBase yet
NoReport ==
    [called |-> FALSE, actionName |-> Undefined, status |-> Undefined,
     actionStartedAt |-> 0, threw |-> FALSE, error |-> NoError, value |-> <<>>,
     apiRequests |-> 0]

\* no call of getAnalysisKey on its own yet
NoKeyCall ==
    [called |-> FALSE, threw |-> FALSE, error |-> NoError, value |-> Undefined,
     requests |-> 0]

\* the arguments of upload the model keeps fixed
UploadArgs ==
    [commitOid |-> "0123abcd", ref |-> "refs/heads/main",
     analysisKey |-> ".github/workflows/codeql.yml:analyze", analysisName |-> "CodeQL",
     workflowRunID |-> 7, checkoutPath |-> "/home/runner/work", environment |-> "{}"]

\* what fs says about sarifPath: a missing path, a file, or a directory and
\* its entries (no two the same) in readdir order
Paths ==
    {[exists |-> FALSE, isDirectory |-> FALSE, entries |-> <<>>]}
        \cup {[exists |-> TRUE, isDirectory |-> FALSE, entries |-> <<f>>] : f \in Files}
        \cup {[exists |-> TRUE, isDirectory |-> TRUE, entries |-> s] :
                 s \in DistinctSeqsUpTo(Files, MaxFiles)}

BaseEnv ==
    [CODEQL_UPLOAD_SARIF |-> Undefined, TEST_MODE |-> Undefined,
     CODEQL_WORKFLOW_STARTED_AT |-> Undefined,
     GITHUB_SERVER_URL |-> GITHUB_DOTCOM_URL, GITHUB_REPOSITORY |-> "owner/repo",
     CODEQL_LOCAL_RUN |-> Undefined,
     GITHUB_SHA |-> "0123abcd", GITHUB_REF |-> "refs/heads/main", GITHUB_RUN_ID |-> "7",
     GITHUB_WORKFLOW |-> "CodeQL", GITHUB_JOB |-> "analyze",
     CODEQL_ACTION_ANALYSIS_KEY |-> Undefined, INPUT_MATRIX |-> "{}"]

InitRest ==
    /\ jobFailed = FALSE
    /\ numRequests = [m \in Mode |-> 0]
    /\ pc = "idle"
    /\ mode = "actions"
    /\ sarifFiles = <<>>
    /\ trace = <<>>
    /\ sarifPayload = <<>>
    /\ zipped_sarif = <<>>
    /\ toolNames = <<>>
    /\ payload = <<>>
    /\ requests = <<>>
    /\ result = <<>>
    /\ error = NoError
    /\ sr = NoCall
    /\ report = NoReport
    /\ keyCall = NoKeyCall
    /\ combineArg = <<>>
    /\ combineRet = <<>>

\* A fresh job: nothing exported yet.  TEST_MODE is whatever the job was
\* started with.
Init ==
    /\ \E t \in {Undefined, "true", "false"} : env = [BaseEnv EXCEPT !["TEST_MODE"] = t]
    /\ InitRest

(***************************************************************************)
(* upload-lib.ts: upload and uploadFiles, step by step.                    *)
(***************************************************************************)
\* a call of upload or sendStatusReport can start: none is in progress
Quiescent == pc \in {"idle", "returned", "threw"}

\* the locals of a call that has just started
FreshFrame(m, files) ==
    /\ mode' = m
    /\ sarifFiles' = files
    /\ trace' = <<>>
    /\ sarifPayload' = <<>>
    /\ zipped_sarif' = <<>>
    /\ toolNames' = <<>>
    /\ payload' = <<>>
    /\ requests' = <<>>
    /\ result' = <<>>

\* throw new Error(e) out of upload
Throw(e) ==
    /\ pc' = "threw"
    /\ error' = e

NumValidated == Cardinality({i \in 1..Len(trace) : trace[i] = "validate"})

\* MUTANT of upload: the sentinel is consulted and claimed before the path is
\* looked at
uploadGuardFirst(sarifPath, m) ==
    /\ Quiescent
    /\ numRequests[m] < MaxRequests
    /\ LET found == SelectSeq(sarifPath.entries, LAMBDA f : EndsWithSarif(f.name))
           claimed == m = "actions" /\ env["CODEQL_UPLOAD_SARIF"] \notin {Undefined, ""}
       IN /\ IF claimed
             THEN FreshFrame(m, <<>>) /\ Throw(DuplicateUploadError)
             ELSE IF ~sarifPath.exists
             THEN FreshFrame(m, <<>>) /\ Throw(PathError)
             ELSE IF sarifPath.isDirectory
             THEN IF Len(found) = 0
                  THEN FreshFrame(m, <<>>) /\ Throw(NoFilesError)
                  ELSE FreshFrame(m, found) /\ pc' = "validate" /\ error' = NoError
             ELSE FreshFrame(m, sarifPath.entries) /\ pc' = "validate" /\ error' = NoError
          /\ env' = IF m = "actions" /\ ~claimed
                    THEN [env EXCEPT !["CODEQL_UPLOAD_SARIF"] = "CODEQL_UPLOAD_SARIF"]
                    ELSE env
    /\ sr' = NoCall
    /\ UNCHANGED <<jobFailed, numRequests, report, keyCall, combineVars>>

\* upload, lines 102-119: resolve sarifPath to the list of files, then call
\* uploadFiles
upload(sarifPath, m) ==
    /\ Quiescent
    /\ numRequests[m] < MaxRequests
    /\ LET found == SelectSeq(sarifPath.entries, LAMBDA f : EndsWithSarif(f.name))
       IN IF ~sarifPath.exists
          THEN FreshFrame(m, <<>>) /\ Throw(PathError)
          ELSE IF sarifPath.isDirectory
          THEN IF Len(found) = 0
               THEN FreshFrame(m, <<>>) /\ Throw(NoFilesError)
               ELSE FreshFrame(m, found) /\ pc' = "guard" /\ error' = NoError
          ELSE FreshFrame(m, sarifPath.entries) /\ pc' = "guard" /\ error' = NoError
    /\ sr' = NoCall
    /\ UNCHANGED <<job, report, keyCall, combineVars>>

\* process.env[sentinelEnvVar] is truthy
sentinelSet == env["CODEQL_UPLOAD_SARIF"] \notin {Undefined, ""}

\* MUTANT of uploadFilesGuard: the sentinel is exported but never checked
uploadFilesGuardNoCheck ==
    /\ pc = "guard"
    /\ trace' = Append(trace, "guard")
    /\ IF mode = "actions"
       THEN env' = [env EXCEPT !["CODEQL_UPLOAD_SARIF"] = "CODEQL_UPLOAD_SARIF"]
       ELSE UNCHANGED env
    /\ pc' = "validate"
    /\ UNCHANGED <<error, jobFailed, numRequests, mode, sarifFiles, sarifPayload,
                   zipped_sarif, toolNames, payload, requests, result, sr, report, keyCall, combineVars>>

\* MUTANT of uploadFilesGuard: the guard applies in every mode
uploadFilesGuardAllModes ==
    /\ pc = "guard"
    /\ trace' = Append(trace, "guard")
    /\ IF env["CODEQL_UPLOAD_SARIF"] \notin {Undefined, ""}
       THEN Throw(DuplicateUploadError) /\ UNCHANGED env
       ELSE /\ env' = [env EXCEPT !["CODEQL_UPLOAD_SARIF"] = "CODEQL_UPLOAD_SARIF"]
            /\ pc' = "validate"
            /\ UNCHANGED error
    /\ UNCHANGED <<jobFailed, numRequests, mode, sarifFiles, sarifPayload, zipped_sarif,
                   toolNames, payload, requests, result, sr, report, keyCall, combineVars>>

\* MUTANT of uploadFilesGuard: the sentinel is checked but never exported
uploadFilesGuardNoExport ==
    /\ pc = "guard"
    /\ trace' = Append(trace, "guard")
    /\ IF mode = "actions" /\ sentinelSet
       THEN Throw(DuplicateUploadError)
       ELSE pc' = "validate" /\ UNCHANGED error
    /\ UNCHANGED <<env, jobFailed, numRequests, mode, sarifFiles, sarifPayload,
                   zipped_sarif, toolNames, payload, requests, result, sr, report, keyCall, combineVars>>

\* uploadFiles, lines 192-201: the guard
uploadFilesGuard ==
    /\ pc = "guard"
    /\ trace' = Append(trace, "guard")
    /\ IF mode = "actions"
       THEN IF sentinelSet
            THEN Throw(DuplicateUploadError) /\ UNCHANGED env
            ELSE /\ env' = [env EXCEPT !["CODEQL_UPLOAD_SARIF"] = "CODEQL_UPLOAD_SARIF"]
                 /\ pc' = "validate"
                 /\ UNCHANGED error
       ELSE pc' = "validate" /\ UNCHANGED <<env, error>>
    /\ UNCHANGED <<jobFailed, numRequests, mode, sarifFiles, sarifPayload, zipped_sarif,
                   toolNames, payload, requests, result, sr, report, keyCall, combineVars>>

\* MUTANT of uploadFilesValidate: the files after the first are left to be
\* validated as they are combined
uploadFilesValidateFirstOnly ==
    /\ pc = "validate"
    /\ trace' = Append(trace, "validate")
    /\ LET e == validateSarifFileSchema(sarifFiles[1])
       IN IF e # NoError
          THEN Throw(e)
          ELSE pc' = "combine" /\ UNCHANGED error
    /\ UNCHANGED <<job, mode, sarifFiles, sarifPayload, zipped_sarif, toolNames, payload,
                   requests, result, sr, report, keyCall, combineVars>>

\* uploadFiles, lines 204-206: one turn of the validation loop
uploadFilesValidate ==
    /\ pc = "validate"
    /\ trace' = Append(trace, "validate")
    /\ LET i == NumValidated + 1
           e == validateSarifFileSchema(sarifFiles[i])
       IN IF e # NoError
          THEN Throw(e)
          ELSE /\ pc' = IF i = Len(sarifFiles) THEN "combine" ELSE "validate"
               /\ UNCHANGED error
    /\ UNCHANGED <<job, mode, sarifFiles, sarifPayload, zipped_sarif, toolNames, payload,
                   requests, result, sr, report, keyCall, combineVars>>

\* uploadFiles, line 208
uploadFilesCombine ==
    /\ pc = "combine"
    /\ trace' = Append(trace, "combine")
    /\ LET r == combineSarifFiles(sarifFiles)
       IN IF r.error # NoError
          THEN Throw(r.error) /\ UNCHANGED sarifPayload
          ELSE /\ sarifPayload' = r.value
               /\ pc' = "fingerprint"
               /\ UNCHANGED error
    /\ UNCHANGED <<job, mode, sarifFiles, zipped_sarif, toolNames, payload, requests,
                   result, sr, report, keyCall, combineVars>>

\* MUTANT of uploadFilesFingerprint: the enriched text is dropped and the
\* combined text goes on as it is
uploadFilesFingerprintDropped ==
    /\ pc = "fingerprint"
    /\ trace' = Append(trace, "fingerprint")
    /\ pc' = "gzip"
    /\ UNCHANGED <<job, mode, sarifFiles, sarifPayload, zipped_sarif, toolNames, payload,
                   requests, result, error, sr, report, keyCall, combineVars>>

\* uploadFiles, lines 209-213
uploadFilesFingerprint ==
    /\ pc = "fingerprint"
    /\ trace' = Append(trace, "fingerprint")
    /\ sarifPayload' = addFingerprints(sarifPayload)
    /\ pc' = "gzip"
    /\ UNCHANGED <<job, mode, sarifFiles, zipped_sarif, toolNames, payload, requests,
                   result, error, sr, report, keyCall, combineVars>>

\* uploadFiles, line 215
uploadFilesGzip ==
    /\ pc = "gzip"
    /\ trace' = Append(trace, "gzip")
    /\ zipped_sarif' = gzipBase64(sarifPayload)
    /\ pc' = "toolnames"
    /\ UNCHANGED <<job, mode, sarifFiles, sarifPayload, toolNames, payload, requests,
                   result, error, sr, report, keyCall, combineVars>>

\* uploadFiles, line 218
uploadFilesToolNames ==
    /\ pc = "toolnames"
    /\ trace' = Append(trace, "toolnames")
    /\ toolNames' = getToolNames(sarifPayload)
    /\ pc' = "payload"
    /\ UNCHANGED <<job, mode, sarifFiles, sarifPayload, zipped_sarif, payload, requests,
                   result, error, sr, report, keyCall, combineVars>>

\* fileUrl(checkoutPath)
fileUrl(path) == <<"file://", path>>

\* uploadFiles, lines 220-242: the payload of the mode
buildPayload ==
    IF mode = "actions"
    THEN [commit_oid |-> UploadArgs.commitOid,
          ref |-> UploadArgs.ref,
          analysis_key |-> UploadArgs.analysisKey,
          analysis_name |-> UploadArgs.analysisName,
          sarif |-> zipped_sarif,
          workflow_run_id |-> UploadArgs.workflowRunID,
          checkout_uri |-> fileUrl(UploadArgs.checkoutPath),
          environment |-> UploadArgs.environment,
          started_at |-> env["CODEQL_WORKFLOW_STARTED_AT"],
          tool_names |-> toolNames]
    ELSE [commit_sha |-> UploadArgs.commitOid,
          ref |-> UploadArgs.ref,
          sarif |-> zipped_sarif,
          checkout_uri |-> fileUrl(UploadArgs.checkoutPath),
          tool_name |-> firstToolName(toolNames)]

uploadFilesPayload ==
    /\ pc = "payload"
    /\ trace' = Append(trace, "payload")
    /\ payload' = <<buildPayload>>
    /\ pc' = "upload"
    /\ UNCHANGED <<job, mode, sarifFiles, sarifPayload, zipped_sarif, toolNames, requests,
                   result, error, sr, report, keyCall, combineVars>>

\* uploadFiles, lines 245-249 and 262-266: the report returned
uploadStatusReport ==
    [raw_upload_size_bytes |-> Len(sarifPayload),
     zipped_upload_size_bytes |-> Len(zipped_sarif),
     num_results_in_sarif |-> countResultsInSarif(sarifPayload)]

\* MUTANT of testMode: any value of TEST_MODE but "1" leaves test mode off
testModeOne == env["TEST_MODE"] = "1"

\* uploadPayload, line 54
testMode == env["TEST_MODE"] = "true"

\* MUTANT of reqURL: the endpoint of the actions mode in every mode
reqURLAlwaysPut == "PUT /repos/:owner/:repo/code-scanning/analysis"

\* uploadPayload, lines 61-64
reqURL ==
    IF mode = "actions"
    THEN "PUT /repos/:owner/:repo/code-scanning/analysis"
    ELSE "POST /repos/:owner/:repo/code-scanning/sarifs"

\* MUTANT of uploadPayload: a request that throws is sent again
uploadPayloadRetry(throws) ==
    /\ pc = "upload"
    /\ trace' = Append(trace, "upload")
    /\ IF testMode
       THEN /\ ~throws
            /\ pc' = "returned"
            /\ result' = <<uploadStatusReport>>
            /\ UNCHANGED <<requests, numRequests, error>>
       ELSE /\ requests' = Append(requests, [url |-> reqURL, data |-> payload[1],
                                              threw |-> throws])
            /\ numRequests' = [numRequests EXCEPT ![mode] = @ + 1]
            /\ IF throws
               THEN pc' = "upload" /\ UNCHANGED <<result, error>>
               ELSE /\ pc' = "returned"
                    /\ result' = <<uploadStatusReport>>
                    /\ UNCHANGED error
    /\ UNCHANGED <<env, jobFailed, mode, sarifFiles, sarifPayload, zipped_sarif, toolNames,
                   payload, sr, report, keyCall, combineVars>>

\* MUTANT of uploadPayload: a request that throws gives the sentinel back,
\* so that the job may try again
uploadPayloadRelease(throws) ==
    /\ pc = "upload"
    /\ trace' = Append(trace, "upload")
    /\ IF testMode
       THEN /\ ~throws
            /\ pc' = "returned"
            /\ result' = <<uploadStatusReport>>
            /\ UNCHANGED <<requests, numRequests, error, env>>
       ELSE /\ requests' = Append(requests, [url |-> reqURL, data |-> payload[1],
                                              threw |-> throws])
            /\ numRequests' = [numRequests EXCEPT ![mode] = @ + 1]
            /\ IF throws
               THEN /\ Throw(TransportError)
                    /\ env' = [env EXCEPT !["CODEQL_UPLOAD_SARIF"] = Undefined]
                    /\ UNCHANGED result
               ELSE /\ pc' = "returned"
                    /\ result' = <<uploadStatusReport>>
                    /\ UNCHANGED <<error, env>>
    /\ UNCHANGED <<jobFailed, mode, sarifFiles, sarifPayload, zipped_sarif, toolNames,
                   payload, sr, report, keyCall, combineVars>>

\* uploadFiles, lines 253-266, with uploadPayload, lines 43-73: the request
\* is sent once; it either answers or throws
uploadPayload(throws) ==
    /\ pc = "upload"
    /\ trace' = Append(trace, "upload")
    /\ IF testMode
       THEN /\ ~throws
            /\ pc' = "returned"
            /\ result' = <<uploadStatusReport>>
            /\ UNCHANGED <<requests, numRequests, error>>
       ELSE /\ requests' = Append(requests, [url |-> reqURL, data |-> payload[1],
                                              threw |-> throws])
            /\ numRequests' = [numRequests EXCEPT ![mode] = @ + 1]
            /\ IF throws
               THEN Throw(TransportError) /\ UNCHANGED result
               ELSE /\ pc' = "returned"
                    /\ result' = <<uploadStatusReport>>
                    /\ UNCHANGED error
    /\ UNCHANGED <<env, jobFailed, mode, sarifFiles, sarifPayload, zipped_sarif, toolNames,
                   payload, sr, report, keyCall, combineVars>>

(***************************************************************************)
(* actions-util.ts: sendStatusReport.                                      *)
(***************************************************************************)
\* getRequiredEnvParam throws for this variable: it is unset or empty
missingEnvParam(paramName) == env[paramName] \in {Undefined, ""}

EnvParamError(paramName) == <<paramName, "environment variable must be set">>

\* util.isLocalRun
isLocalRun == env["CODEQL_LOCAL_RUN"] \notin {Undefined, "", "false", "0"}

\* the HTTP status codes the status endpoint is taken to answer with
Statuses == {200, 202, 400, 403, 404, 500}

\* what client.request does: it throws, or answers with a status
Responses ==
    {[threw |-> TRUE, status |-> 0]} \cup {[threw |-> FALSE, status |-> s] : s \in Statuses}

\* the values of the optional parameter ignoreFailures
IgnoreFailures == {Undefined, "true", "false"}

\* MUTANT of sendStatusReportCall: only the 403 answer fails the job
sendStatusReportCall403Only(ignoreFailures, response) ==
    LET done == [called |-> TRUE, ignoreFailures |-> ignoreFailures, sent |-> FALSE,
                 threw |-> FALSE, status |-> 0, returned |-> "true", error |-> NoError]
    IN IF missingEnvParam("GITHUB_SERVER_URL")
       THEN [done EXCEPT !.threw = TRUE, !.returned = Undefined,
                         !.error = EnvParamError("GITHUB_SERVER_URL")]
       ELSE IF env["GITHUB_SERVER_URL"] # GITHUB_DOTCOM_URL
       THEN done
       ELSE IF isLocalRun
       THEN done
       ELSE IF missingEnvParam("GITHUB_REPOSITORY")
       THEN [done EXCEPT !.threw = TRUE, !.returned = Undefined,
                         !.error = EnvParamError("GITHUB_REPOSITORY")]
       ELSE IF response.threw
       THEN [done EXCEPT !.sent = TRUE, !.threw = TRUE, !.returned = Undefined,
                         !.error = TransportError]
       ELSE IF ignoreFailures # "true" /\ response.status = 403
       THEN [done EXCEPT !.sent = TRUE, !.status = 403, !.returned = "false"]
       ELSE [done EXCEPT !.sent = TRUE, !.status = response.status]

\* MUTANT of sendStatusReportCall: the local-run check is left out
sendStatusReportCallNoLocalCheck(ignoreFailures, response) ==
    LET done == [called |-> TRUE, ignoreFailures |-> ignoreFailures, sent |-> FALSE,
                 threw |-> FALSE, status |-> 0, returned |-> "true", error |-> NoError]
    IN IF missingEnvParam("GITHUB_SERVER_URL")
       THEN [done EXCEPT !.threw = TRUE, !.returned = Undefined,
                         !.error = EnvParamError("GITHUB_SERVER_URL")]
       ELSE IF env["GITHUB_SERVER_URL"] # GITHUB_DOTCOM_URL
       THEN done
       ELSE IF missingEnvParam("GITHUB_REPOSITORY")
       THEN [done EXCEPT !.threw = TRUE, !.returned = Undefined,
                         !.error = EnvParamError("GITHUB_REPOSITORY")]
       ELSE IF response.threw
       THEN [done EXCEPT !.sent = TRUE, !.threw = TRUE, !.returned = Undefined,
                         !.error = TransportError]
       ELSE IF ignoreFailures # "true" /\ response.status = 403
       THEN [done EXCEPT !.sent = TRUE, !.status = 403, !.returned = "false"]
       ELSE IF ignoreFailures # "true" /\ response.status = 404
       THEN [done EXCEPT !.sent = TRUE, !.status = 404, !.returned = "false"]
       ELSE [done EXCEPT !.sent = TRUE, !.status = response.status]

\* sendStatusReport, lines 296-342: the record of the call, response being
\* what the request does if it is sent
sendStatusReportCall(ignoreFailures, response) ==
    LET done == [called |-> TRUE, ignoreFailures |-> ignoreFailures, sent |-> FALSE,
                 threw |-> FALSE, status |-> 0, returned |-> "true", error |-> NoError]
    IN IF missingEnvParam("GITHUB_SERVER_URL")
       THEN [done EXCEPT !.threw = TRUE, !.returned = Undefined,
                         !.error = EnvParamError("GITHUB_SERVER_URL")]
       ELSE IF env["GITHUB_SERVER_URL"] # GITHUB_DOTCOM_URL
       THEN done
       ELSE IF isLocalRun
       THEN done
       ELSE IF missingEnvParam("GITHUB_REPOSITORY")
       THEN [done EXCEPT !.threw = TRUE, !.returned = Undefined,
                         !.error = EnvParamError("GITHUB_REPOSITORY")]
       ELSE IF response.threw
       THEN [done EXCEPT !.sent = TRUE, !.threw = TRUE, !.returned = Undefined,
                         !.error = TransportError]
       ELSE IF ignoreFailures # "true" /\ response.status = 403
       THEN [done EXCEPT !.sent = TRUE, !.status = 403, !.returned = "false"]
       ELSE IF ignoreFailures # "true" /\ response.status = 404
       THEN [done EXCEPT !.sent = TRUE, !.status = 404, !.returned = "false"]
       ELSE [done EXCEPT !.sent = TRUE, !.status = response.status]

\* whether the call reaches core.setFailed (lines 329 and 335)
callsSetFailed(call) == call.returned = "false"

\* a call of sendStatusReport, between two calls of upload
sendStatusReport(ignoreFailures, response) ==
    /\ Quiescent
    /\ LET call == sendStatusReportCall(ignoreFailures, response)
       IN /\ sr' = call
          /\ jobFailed' = (jobFailed \/ callsSetFailed(call))
    /\ pc' = "idle"
    /\ FreshFrame(mode, <<>>)
    /\ error' = NoError
    /\ UNCHANGED <<env, numRequests, report, keyCall, combineVars>>

(***************************************************************************)
(* actions-util.ts: createStatusReportBase and what it calls.              *)
(***************************************************************************)
ActionName == {"init", "autobuild", "finish", "upload-sarif"}
ActionStatus == {"starting", "aborted", "success", "failure"}

\* the instants a Date can hold
Times == 1..MaxTime

\* Date.prototype.toISOString
toISOString(t) ==
    <<"1970-01-01T00:00:01.000Z", "1970-01-01T00:00:02.000Z",
      "1970-01-01T00:00:03.000Z", "1970-01-01T00:00:04.000Z">>[t]

\* parseInt(str, 10) of a decimal string
parseInt10(str) == CHOOSE n \in 0..9 : ToString(n) = str

\* what `git rev-parse HEAD` does: it prints the commit checked out, or fails
HEAD_SHA == "89abcdef"
GitOutcomes ==
    {[threw |-> FALSE, stdout |-> "0123abcd"], [threw |-> FALSE, stdout |-> HEAD_SHA],
     [threw |-> TRUE, stdout |-> ""]}

\* what the two requests of getWorkflowPath do
ApiOutcomes == {"ok", "runs request throws", "workflow request throws"}

WorkflowPath == ".github/workflows/codeql.yml"

\* the template strings `${workflowPath}:${jobName}` and `LOCAL-RUN:${job}`
KeyStrings ==
    {[prefix |-> WorkflowPath, job |-> "analyze",
      key |-> ".github/workflows/codeql.yml:analyze"],
     [prefix |-> WorkflowPath, job |-> "UNKNOWN-JOB",
      key |-> ".github/workflows/codeql.yml:UNKNOWN-JOB"],
     [prefix |-> "LOCAL-RUN", job |-> "analyze", key |-> "LOCAL-RUN:analyze"],
     [prefix |-> "LOCAL-RUN", job |-> "UNKNOWN-JOB", key |-> "LOCAL-RUN:UNKNOWN-JOB"]}

keyString(prefix, jobName) ==
    (CHOOSE r \in KeyStrings : r.prefix = prefix /\ r.job = jobName).key

\* process.env[name] || ""
envOrEmpty(name) == IF env[name] \in {Undefined, ""} THEN "" ELSE env[name]

\* prepareLocalRunEnvironment, lines 46-61: the environment it leaves
prepareLocalRunEnvironmentEnv ==
    IF ~isLocalRun
    THEN env
    ELSE LET e1 == IF env["GITHUB_JOB"] \in {Undefined, ""}
                   THEN [env EXCEPT !["GITHUB_JOB"] = "UNKNOWN-JOB"]
                   ELSE env
         IN IF e1["CODEQL_ACTION_ANALYSIS_KEY"] \in {Undefined, ""}
            THEN [e1 EXCEPT !["CODEQL_ACTION_ANALYSIS_KEY"] =
                                keyString("LOCAL-RUN", e1["GITHUB_JOB"])]
            ELSE e1

prepareLocalRunEnvironment ==
    /\ Quiescent
    /\ env' = prepareLocalRunEnvironmentEnv
    /\ UNCHANGED <<jobFailed, numRequests, pc, frame, sr, report, keyCall, combineVars>>

\* getCommitOid, lines 66-94
getCommitOid(git) ==
    IF ~git.threw
    THEN [error |-> NoError, value |-> git.stdout]
    ELSE IF missingEnvParam("GITHUB_SHA")
    THEN [error |-> EnvParamError("GITHUB_SHA"), value |-> Undefined]
    ELSE [error |-> NoError, value |-> env["GITHUB_SHA"]]

\* pull_ref_regex, line 167, and ref.replace, line 174, on the refs of the model
PullRefs == {[merge |-> "refs/pull/12/merge", head |-> "refs/pull/12/head"]}

pull_ref_regex_test(ref) == \E r \in PullRefs : r.merge = ref

pull_ref_replace(ref) == (CHOOSE r \in PullRefs : r.merge = ref).head

\* getRef, lines 158-178
getRef(git) ==
    IF missingEnvParam("GITHUB_REF")
    THEN [error |-> EnvParamError("GITHUB_REF"), value |-> Undefined]
    ELSE LET ref == env["GITHUB_REF"]
             checkoutSha == getCommitOid(git)
         IN IF checkoutSha.error # NoError
            THEN checkoutSha
            ELSE IF ~pull_ref_regex_test(ref)
            THEN [error |-> NoError, value |-> ref]
            ELSE IF missingEnvParam("GITHUB_SHA")
            THEN [error |-> EnvParamError("GITHUB_SHA"), value |-> Undefined]
            ELSE IF checkoutSha.value # env["GITHUB_SHA"]
            THEN [error |-> NoError, value |-> pull_ref_replace(ref)]
            ELSE [error |-> NoError, value |-> ref]

\* getWorkflowPath, lines 99-119, with the number of requests it issued
getWorkflowPath(api) ==
    IF missingEnvParam("GITHUB_REPOSITORY")
    THEN [error |-> EnvParamError("GITHUB_REPOSITORY"), value |-> Undefined, requests |-> 0]
    ELSE IF missingEnvParam("GITHUB_RUN_ID")
    THEN [error |-> EnvParamError("GITHUB_RUN_ID"), value |-> Undefined, requests |-> 0]
    ELSE IF api = "runs request throws"
    THEN [error |-> TransportError, value |-> Undefined, requests |-> 1]
    ELSE IF api = "workflow request throws"
    THEN [error |-> TransportError, value |-> Undefined, requests |-> 2]
    ELSE [error |-> NoError, value |-> WorkflowPath, requests |-> 2]

\* MUTANT of getAnalysisKey: the exported key is not looked at
getAnalysisKeyNoCache(api) ==
    LET workflowPath == getWorkflowPath(api)
    IN IF workflowPath.error # NoError
       THEN [error |-> workflowPath.error, value |-> Undefined,
             requests |-> workflowPath.requests, exported |-> FALSE]
       ELSE IF missingEnvParam("GITHUB_JOB")
       THEN [error |-> EnvParamError("GITHUB_JOB"), value |-> Undefined,
             requests |-> workflowPath.requests, exported |-> FALSE]
       ELSE [error |-> NoError,
             value |-> keyString(workflowPath.value, env["GITHUB_JOB"]),
             requests |-> workflowPath.requests, exported |-> TRUE]

\* MUTANT of getAnalysisKey: the key resolved is returned but not exported
getAnalysisKeyNoExport(api) ==
    IF env["CODEQL_ACTION_ANALYSIS_KEY"] # Undefined
    THEN [error |-> NoError, value |-> env["CODEQL_ACTION_ANALYSIS_KEY"],
          requests |-> 0, exported |-> FALSE]
    ELSE LET workflowPath == getWorkflowPath(api)
         IN IF workflowPath.error # NoError
            THEN [error |-> workflowPath.error, value |-> Undefined,
                  requests |-> workflowPath.requests, exported |-> FALSE]
            ELSE IF missingEnvParam("GITHUB_JOB")
            THEN [error |-> EnvParamError("GITHUB_JOB"), value |-> Undefined,
                  requests |-> workflowPath.requests, exported |-> FALSE]
            ELSE [error |-> NoError,
                  value |-> keyString(workflowPath.value, env["GITHUB_JOB"]),
                  requests |-> workflowPath.requests, exported |-> FALSE]

\* getAnalysisKey, lines 139-153: the key, the requests issued, and whether
\* the key was exported
getAnalysisKey(api) ==
    IF env["CODEQL_ACTION_ANALYSIS_KEY"] # Undefined
    THEN [error |-> NoError, value |-> env["CODEQL_ACTION_ANALYSIS_KEY"],
          requests |-> 0, exported |-> FALSE]
    ELSE LET workflowPath == getWorkflowPath(api)
         IN IF workflowPath.error # NoError
            THEN [error |-> workflowPath.error, value |-> Undefined,
                  requests |-> workflowPath.requests, exported |-> FALSE]
            ELSE IF missingEnvParam("GITHUB_JOB")
            THEN [error |-> EnvParamError("GITHUB_JOB"), value |-> Undefined,
                  requests |-> workflowPath.requests, exported |-> FALSE]
            ELSE [error |-> NoError,
                  value |-> keyString(workflowPath.value, env["GITHUB_JOB"]),
                  requests |-> workflowPath.requests, exported |-> TRUE]

\* a call of getAnalysisKey on its own, between two calls of upload
callGetAnalysisKey(api) ==
    /\ Quiescent
    /\ LET r == getAnalysisKey(api)
       IN /\ keyCall' = [called |-> TRUE, threw |-> r.error # NoError, error |-> r.error,
                         value |-> r.value, requests |-> r.requests]
          /\ env' = IF r.exported
                    THEN [env EXCEPT !["CODEQL_ACTION_ANALYSIS_KEY"] = r.value]
                    ELSE env
    /\ UNCHANGED <<jobFailed, numRequests, pc, frame, sr, report, combineVars>>

\* core.getInput("matrix", { required: true }) throws for an input not supplied
InputRequiredError(name) == <<"Input required and not supplied:", name>>

\* MUTANT of isCompleted: an aborted action is not taken as finished
isCompletedNoAborted(status) == status \in {"success", "failure"}

\* line 272: the statuses of a finished action
isCompleted(status) == status \in {"success", "failure", "aborted"}

\* MUTANT of workflowStartedAt: every call reports its own start
workflowStartedAtOwn(actionStartedAt) == toISOString(actionStartedAt)

\* lines 242-249: the started_at of the workflow, the one exported or else
\* the start of this action, which is exported then
workflowStartedAt(actionStartedAt) ==
    IF env["CODEQL_WORKFLOW_STARTED_AT"] = Undefined
    THEN toISOString(actionStartedAt)
    ELSE env["CODEQL_WORKFLOW_STARTED_AT"]

\* createStatusReportBase, lines 232-280: the outcome of the call and the
\* environment it leaves.  An optional field left out is Undefined.
createStatusReportBaseCall(actionName, status, actionStartedAt, cause, exception, now, git, api) ==
    LET call == [called |-> TRUE, actionName |-> actionName, status |-> status,
                 actionStartedAt |-> actionStartedAt, threw |-> FALSE,
                 error |-> NoError, value |-> <<>>, apiRequests |-> 0]
        commitOid == envOrEmpty("GITHUB_SHA")
        ref == getRef(git)
        workflowRunID == IF env["GITHUB_RUN_ID"] \in {Undefined, ""}
                         THEN -1
                         ELSE parseInt10(env["GITHUB_RUN_ID"])
        workflowName == envOrEmpty("GITHUB_WORKFLOW")
        jobName == envOrEmpty("GITHUB_JOB")
        analysis_key == getAnalysisKey(api)
        env1 == IF analysis_key.exported
                THEN [env EXCEPT !["CODEQL_ACTION_ANALYSIS_KEY"] = analysis_key.value]
                ELSE env
        env2 == [env1 EXCEPT !["CODEQL_WORKFLOW_STARTED_AT"] =
                                 workflowStartedAt(actionStartedAt)]
        statusReport ==
            [workflow_run_id |-> workflowRunID,
             workflow_name |-> workflowName,
             job_name |-> jobName,
             analysis_key |-> analysis_key.value,
             commit_oid |-> commitOid,
             ref |-> ref.value,
             action_name |-> actionName,
             action_oid |-> "unknown",
             started_at |-> workflowStartedAt(actionStartedAt),
             action_started_at |-> toISOString(actionStartedAt),
             status |-> status,
             cause |-> IF cause \in {Undefined, ""} THEN Undefined ELSE cause,
             exception |-> IF exception \in {Undefined, ""} THEN Undefined ELSE exception,
             completed_at |-> IF isCompleted(status) THEN toISOString(now) ELSE Undefined,
             matrix_vars |-> env["INPUT_MATRIX"]]
    IN IF ref.error # NoError
       THEN [call |-> [call EXCEPT !.threw = TRUE, !.error = ref.error], env |-> env]
       ELSE IF analysis_key.error # NoError
       THEN [call |-> [call EXCEPT !.threw = TRUE, !.error = analysis_key.error,
                                   !.apiRequests = analysis_key.requests],
             env |-> env]
       ELSE IF env["INPUT_MATRIX"] \in {Undefined, ""}
       THEN [call |-> [call EXCEPT !.threw = TRUE, !.error = InputRequiredError("matrix"),
                                   !.apiRequests = analysis_key.requests],
             env |-> env2]
       ELSE [call |-> [call EXCEPT !.value = <<statusReport>>,
                                   !.apiRequests = analysis_key.requests],
             env |-> env2]

\* a call of createStatusReportBase, between two calls of upload
createStatusReportBase(actionName, status, actionStartedAt, cause, exception, now, git, api) ==
    /\ Quiescent
    /\ now >= actionStartedAt
    /\ LET r == createStatusReportBaseCall(actionName, status, actionStartedAt, cause,
                                            exception, now, git, api)
       IN /\ report' = r.call
          /\ env' = r.env
    /\ UNCHANGED <<jobFailed, numRequests, pc, frame, sr, keyCall, combineVars>>

(***************************************************************************)
(* The job: calls of upload and of sendStatusReport, one at a time.        *)
(***************************************************************************)
Next ==
    \/ \E sarifPath \in Paths, m \in Mode : upload(sarifPath, m)
    \/ uploadFilesGuard
    \/ uploadFilesValidate
    \/ uploadFilesCombine
    \/ uploadFilesFingerprint
    \/ uploadFilesGzip
    \/ uploadFilesToolNames
    \/ uploadFilesPayload
    \/ \E throws \in BOOLEAN : uploadPayload(throws)
    \/ \E i \in IgnoreFailures, r \in Responses : sendStatusReport(i, r)

Spec == Init /\ [][Next]_vars

(***************************************************************************)
(* Status reports alone, in every environment.                             *)
(***************************************************************************)
InitStatus ==
    /\ \E url \in {GITHUB_DOTCOM_URL, GHES_URL, Undefined},
          local \in {Undefined, "true", "false"},
          repo \in {"owner/repo", Undefined} :
          env = [BaseEnv EXCEPT !["GITHUB_SERVER_URL"] = url,
                                !["CODEQL_LOCAL_RUN"] = local,
                                !["GITHUB_REPOSITORY"] = repo]
    /\ InitRest

NextStatus ==
    \E i \in IgnoreFailures, r \in Responses : sendStatusReport(i, r)

SpecStatus == InitStatus /\ [][NextStatus]_vars

(***************************************************************************)
(* combineSarifFiles called on its own, on any list of files.              *)
(***************************************************************************)
InitCombine ==
    /\ env = BaseEnv
    /\ jobFailed = FALSE
    /\ numRequests = [m \in Mode |-> 0]
    /\ pc = "idle"
    /\ mode = "actions"
    /\ sarifFiles = <<>>
    /\ trace = <<>>
    /\ sarifPayload = <<>>
    /\ zipped_sarif = <<>>
    /\ toolNames = <<>>
    /\ payload = <<>>
    /\ requests = <<>>
    /\ result = <<>>
    /\ error = NoError
    /\ sr = NoCall
    /\ report = NoReport
    /\ keyCall = NoKeyCall
    /\ combineArg \in SeqsUpTo(CombineFiles, MaxCombine)
    /\ combineRet = <<>>

combineCall ==
    /\ combineRet = <<>>
    /\ combineRet' = <<combineSarifFiles(combineArg)>>
    /\ UNCHANGED <<env, jobFailed, numRequests, pc, frame, sr, report, keyCall, combineArg>>

SpecCombine == InitCombine /\ [][combineCall]_vars

(***************************************************************************)
(* The status reports the actions of one job build, one after another.     *)
(***************************************************************************)
\* the failure arguments createStatusReportBase is called with: a cause and
\* an exception are only supplied with the status failure
StatusArgs ==
    {[status |-> st, cause |-> Undefined, exception |-> Undefined] : st \in ActionStatus}
        \cup {[status |-> "failure", cause |-> "Error: build failed",
               exception |-> "at run (index.js:1)"]}

\* git prints the commit the workflow was triggered on
GitSameSha == [threw |-> FALSE, stdout |-> "0123abcd"]

\* the workflow does or does not pass the matrix input on
InitReport ==
    /\ \E matrix \in {"{}", Undefined} : env = [BaseEnv EXCEPT !["INPUT_MATRIX"] = matrix]
    /\ InitRest

NextReport ==
    \E actionName \in ActionName, a \in StatusArgs, actionStartedAt \in Times,
       now \in Times, api \in {"ok", "runs request throws"} :
       createStatusReportBase(actionName, a.status, actionStartedAt, a.cause,
                              a.exception, now, GitSameSha, api)

SpecReport == InitReport /\ [][NextReport]_vars

(***************************************************************************)
(* Status reports built in environments that lack some of the variables of *)
(* a workflow run, local runs among them.                                  *)
(***************************************************************************)
\* the variables createStatusReportBase and what it calls read
IdentityParams ==
    {"GITHUB_SHA", "GITHUB_REF", "GITHUB_RUN_ID", "GITHUB_WORKFLOW", "GITHUB_JOB",
     "GITHUB_REPOSITORY", "INPUT_MATRIX"}

InitIdentity ==
    /\ \E absent \in {a \in SUBSET IdentityParams : Cardinality(a) <= MaxAbsent},
          ref \in {"refs/heads/main", "refs/pull/12/merge"},
          local \in {Undefined, "true"} :
          env = [name \in DOMAIN BaseEnv |->
                    IF name \in absent THEN Undefined
                    ELSE IF name = "GITHUB_REF" THEN ref
                    ELSE IF name = "CODEQL_LOCAL_RUN" THEN local
                    ELSE BaseEnv[name]]
    /\ InitRest

NextIdentity ==
    \/ prepareLocalRunEnvironment
    \/ \E status \in {"starting", "success"}, git \in GitOutcomes, api \in ApiOutcomes :
          createStatusReportBase("init", status, 1, Undefined, Undefined, 1, git, api)

SpecIdentity == InitIdentity /\ [][NextIdentity]_vars

(***************************************************************************)
(* The analysis key of a job: getAnalysisKey called on its own and by      *)
(* createStatusReportBase, in environments that lack some of the variables *)
(* the resolution reads.                                                   *)
(***************************************************************************)
\* the variables getWorkflowPath and getAnalysisKey require
KeyParams == {"GITHUB_REPOSITORY", "GITHUB_RUN_ID", "GITHUB_JOB"}

InitKey ==
    /\ \E absent \in {a \in SUBSET KeyParams : Cardinality(a) <= MaxAbsent},
          matrix \in {"{}", Undefined} :
          env = [name \in DOMAIN BaseEnv |->
                    IF name \in absent THEN Undefined
                    ELSE IF name = "INPUT_MATRIX" THEN matrix
                    ELSE BaseEnv[name]]
    /\ InitRest

NextKey ==
    \/ \E api \in ApiOutcomes : callGetAnalysisKey(api)
    \/ \E status \in {"starting", "success"}, git \in GitOutcomes, api \in ApiOutcomes :
          createStatusReportBase("finish", status, 1, Undefined, Undefined, 1, git, api)

SpecKey == InitKey /\ [][NextKey]_vars

(***************************************************************************)
(* The properties.                                                         *)
(***************************************************************************)
IsSchemaError(e) == e # NoError /\ e[1] = "Unable to upload"
IsVersionError(e) == e # NoError /\ e[1] = "Different SARIF versions encountered"

\* the steps of a call of uploadFiles on n files that gets as far as the
\* upload, in the order of the source
CanonicalTrace(n) ==
    <<"guard">> \o [i \in 1..n |-> "validate"]
        \o <<"combine", "fingerprint", "gzip", "toolnames", "payload", "upload">>

IsPrefix(s, t) == Len(s) <= Len(t) /\ s = SubSeq(t, 1, Len(s))

Position(step) == {i \in 1..Len(trace) : trace[i] = step}

\* the runs of the files, one file after the other
RunsOf(files) == Flatten([i \in 1..Len(files) |-> files[i].runs])

\* the numbers of an UploadStatusReport, counted on the files themselves:
\* one token for the version, three for each run, two for each result and
\* its fingerprints; two more for the encoding
ExpectedNumResults(files) ==
    SumSeq([i \in 1..Len(RunsOf(files)) |-> Len(RunsOf(files)[i].results)])
ExpectedRawSize(files) == 1 + 3 * Len(RunsOf(files)) + 2 * ExpectedNumResults(files)
ExpectedReport(files) ==
    [raw_upload_size_bytes |-> ExpectedRawSize(files),
     zipped_upload_size_bytes |-> ExpectedRawSize(files) + 2,
     num_results_in_sarif |-> ExpectedNumResults(files)]

\* C1: in actions mode an upload attempt that finds the sentinel claimed by
\* an earlier attempt fails with the "only one run ... per job" error before
\* any file is validated, combined or sent; an attempt that finds the
\* sentinel unset is let through by the guard.
C1_SecondUploadRejected ==
    /\ [][(pc = "guard" /\ mode = "actions") =>
            IF env["CODEQL_UPLOAD_SARIF"] # Undefined
            THEN /\ pc' = "threw"
                 /\ error' = DuplicateUploadError
                 /\ trace' = <<"guard">>
                 /\ sarifPayload' = <<>>
                 /\ requests' = <<>>
                 /\ numRequests' = numRequests
            ELSE /\ pc' = "validate"
                 /\ error' = NoError]_vars
    /\ [](error = DuplicateUploadError =>
            /\ pc = "threw"
            /\ mode = "actions"
            /\ Position("validate") = {}
            /\ Position("combine") = {}
            /\ payload = <<>>
            /\ requests = <<>>)

C1_Witness ==
    /\ pc = "threw"
    /\ error = DuplicateUploadError
    /\ numRequests["actions"] = 1

\* C2: within one job at most one actions-mode upload request is ever sent.
C2_AtMostOneUploadPerJob == numRequests["actions"] <= 1

\* a job that has sent its one actions-mode request and then made two more
\* actions-mode attempts, the last one rejected
C2_Witness ==
    /\ numRequests["actions"] = 1
    /\ numRequests["standalone"] = 1
    /\ mode = "actions"
    /\ pc = "threw"
    /\ error = DuplicateUploadError
    /\ Len(sarifFiles) = 2

\* C3: once the sentinel is set it stays set, whatever runs afterwards.
C3_SentinelNeverReset ==
    [][env["CODEQL_UPLOAD_SARIF"] # Undefined =>
         env'["CODEQL_UPLOAD_SARIF"] = env["CODEQL_UPLOAD_SARIF"]]_vars

C3_Witness ==
    /\ env["CODEQL_UPLOAD_SARIF"] # Undefined
    /\ numRequests["actions"] = 1
    /\ sr.called
    /\ jobFailed

\* C4: every file is validated before combination starts and before any
\* request is sent; an attempt with a file that fails validation throws the
\* schema error and neither combines, enriches nor sends.
C4_ValidateAllThenCombine ==
    /\ \A i \in 1..Len(trace) :
         trace[i] \in {"combine", "fingerprint", "gzip", "toolnames", "payload", "upload"}
            => /\ Cardinality({j \in 1..(i - 1) : trace[j] = "validate"}) = Len(sarifFiles)
               /\ \A k \in 1..Len(sarifFiles) : sarifFiles[k].errors = <<>>
    /\ (\E k \in 1..Len(sarifFiles) : sarifFiles[k].errors # <<>>) =>
         /\ sarifPayload = <<>>
         /\ zipped_sarif = <<>>
         /\ requests = <<>>
         /\ pc # "returned"
         /\ (pc = "threw" /\ error # DuplicateUploadError) => IsSchemaError(error)
    /\ IsSchemaError(error) =>
         /\ Position("combine") = {}
         /\ \E k \in 1..Len(sarifFiles) :
              error = <<"Unable to upload", sarifFiles[k].name, "as it is not valid SARIF">>
                          \o sarifFiles[k].errors

C4_Witness ==
    /\ pc = "threw"
    /\ IsSchemaError(error)
    /\ Len(sarifFiles) = 2
    /\ NumValidated = 2

AllSameVersion(files) ==
    \A i, j \in 1..Len(files) : files[i].version = files[j].version

\* C5: combineSarifFiles on a non-empty list of documents of one version
\* returns a document whose runs are the documents' runs, in the order of
\* the list, and whose version is the common version.
C5_CombineConcatenatesRuns ==
    (combineRet # <<>> /\ combineArg # <<>> /\ AllSameVersion(combineArg)) =>
        /\ combineRet[1].error = NoError
        /\ JSONparse(combineRet[1].value).runs = RunsOf(combineArg)
        /\ JSONparse(combineRet[1].value).version = combineArg[1].version

C5_Witness ==
    /\ combineArg = <<FileC, FileA, FileB>>
    /\ combineRet # <<>>
    /\ combineRet[1].error = NoError
    /\ Len(JSONparse(combineRet[1].value).runs) = 5

C7_PayloadCarriesFingerprintedSarif ==
    /\ sarifFiles # <<>> => IsPrefix(trace, CanonicalTrace(Len(sarifFiles)))
    /\ payload # <<>> =>
         LET combined == JSONstringify([version |-> sarifFiles[1].version,
                                        runs |-> RunsOf(sarifFiles)])
             sent == JSONparse(gunzipBase64(payload[1].sarif))
         IN /\ Len(trace) >= Len(sarifFiles) + 6
            /\ payload[1].sarif = gzipBase64(addFingerprints(combined))
            /\ \A i \in 1..Len(sent.runs) :
                 \A j \in 1..Len(sent.runs[i].results) : sent.runs[i].results[j].fp
    /\ \A i \in 1..Len(requests) :
         payload # <<>> /\ requests[i].data = payload[1]

C7_Witness ==
    /\ Len(requests) = 1
    /\ mode = "standalone"
    /\ sarifFiles = <<FileA, FileC>>
    /\ gunzipBase64(requests[1].data.sarif) # combineSarifFiles(sarifFiles).value

\* C8: with TEST_MODE on, an upload of valid files sends nothing and
\* returns, and the report has the numbers it has without TEST_MODE: the
\* sizes and the result count of the files uploaded.
C8_TestModeSkipsNetwork ==
    /\ pc = "returned" => result = <<ExpectedReport(sarifFiles)>>
    /\ env["TEST_MODE"] = "true" =>
         /\ requests = <<>>
         /\ numRequests = [m \in Mode |-> 0]
         /\ error # TransportError
         /\ Position("upload") # {} => pc = "returned"

C8_Witness ==
    /\ env["TEST_MODE"] = "true"
    /\ pc = "returned"
    /\ sarifFiles = <<FileA, FileB>>
    /\ result[1].num_results_in_sarif = 2
    /\ requests = <<>>

C10_Only403And404FailTheJob ==
    [][(sr'.called /\ sr'.sent /\ ~sr'.threw) =>
         IF sr'.ignoreFailures # "true" /\ sr'.status \in {403, 404}
         THEN sr'.returned = "false" /\ jobFailed'
         ELSE sr'.returned = "true" /\ jobFailed' = jobFailed]_vars

C10_Witness ==
    /\ sr.called
    /\ sr.sent
    /\ sr.ignoreFailures = "false"
    /\ sr.status = 404
    /\ sr.returned = "false"
    /\ jobFailed

\* C11: a transport error raised while a status report is sent does not
\* abort the job: sendStatusReport does not throw it to its caller.
C11_TransportErrorNotPropagated ==
    (sr.called /\ sr.sent) =>
        /\ ~sr.threw
        /\ sr.error = NoError
        /\ sr.returned \in {"true", "false"}

C13_StartedAtWriteOnce ==
    [][LET before == env["CODEQL_WORKFLOW_STARTED_AT"]
           after == env'["CODEQL_WORKFLOW_STARTED_AT"]
       IN /\ before # Undefined => after = before
          /\ (before = Undefined /\ after # Undefined) =>
                 /\ report'.called
                 /\ after = toISOString(report'.actionStartedAt)
          /\ report'.value # <<>> =>
                 /\ after # Undefined
                 /\ report'.value[1].started_at = after]_vars

\* a finish report that started at instant 2 and carries the started_at of
\* instant 1
C13_Witness ==
    /\ report.value # <<>>
    /\ report.actionName = "finish"
    /\ report.status = "success"
    /\ report.value[1].action_started_at = toISOString(2)
    /\ report.value[1].started_at = toISOString(1)
    /\ env["CODEQL_WORKFLOW_STARTED_AT"] = toISOString(1)

\* C14: a report carries completed_at exactly when its status is success,
\* failure or aborted, and never when it is starting.
C14_CompletedAtIffFinished ==
    report.value # <<>> =>
        LET r == report.value[1]
        IN /\ r.status = report.status
           /\ (r.completed_at # Undefined) <=> (r.status \in {"success", "failure", "aborted"})
           /\ r.status = "starting" => r.completed_at = Undefined

C14_Witness ==
    /\ report.value # <<>>
    /\ report.value[1].status = "aborted"
    /\ report.value[1].completed_at = toISOString(2)
    /\ report.value[1].action_started_at = toISOString(1)

\* C15: createStatusReportBase returns no report whenever the run id or
\* the job name is absent from the environment.
C15_AbsentIdentityFails ==
    (/\ report.called
     /\ \/ env["GITHUB_RUN_ID"] = Undefined
        \/ env["GITHUB_JOB"] = Undefined)
        => (report.threw /\ report.value = <<>>)

\* C15, amended: a call of createStatusReportBase returns no report whenever
\* GITHUB_REF or the matrix input is absent, and, while no analysis key is
\* exported, whenever GITHUB_REPOSITORY, GITHUB_RUN_ID or GITHUB_JOB is
\* absent.  With the analysis key exported and GITHUB_REF, GITHUB_SHA and
\* the matrix input present it returns a report, in which an absent run id
\* is -1 and an absent workflow name or commit is the empty string.
C15_FailsOnlyForParamsItRequires ==
    [][report' # report =>
          LET absent(p) == env[p] = Undefined
              cached == env["CODEQL_ACTION_ANALYSIS_KEY"] # Undefined
          IN /\ (\/ absent("GITHUB_REF")
                 \/ absent("INPUT_MATRIX")
                 \/ /\ ~cached
                    /\ \/ absent("GITHUB_REPOSITORY")
                       \/ absent("GITHUB_RUN_ID")
                       \/ absent("GITHUB_JOB"))
                    => (report'.threw /\ report'.value = <<>>)
             /\ (/\ cached
                 /\ ~absent("GITHUB_REF")
                 /\ ~absent("GITHUB_SHA")
                 /\ ~absent("INPUT_MATRIX"))
                    => (~report'.threw /\ report'.value # <<>>)
             /\ report'.value # <<>> =>
                    LET r == report'.value[1]
                    IN /\ r.workflow_run_id = IF absent("GITHUB_RUN_ID") THEN -1 ELSE 7
                       /\ r.workflow_name = IF absent("GITHUB_WORKFLOW") THEN "" ELSE "CodeQL"
                       /\ r.commit_oid = IF absent("GITHUB_SHA") THEN "" ELSE "0123abcd"]_vars

\* a local run without a run id: the report is returned, with run id -1
C15_Witness ==
    /\ report.value # <<>>
    /\ env["GITHUB_RUN_ID"] = Undefined
    /\ report.value[1].workflow_run_id = -1
    /\ report.value[1].analysis_key = "LOCAL-RUN:analyze"

\* C16: in standalone mode the guard neither checks nor sets the sentinel.
\* An attempt goes on to validation whether the sentinel is set or not and
\* leaves the environment as it was, so that any number of standalone
\* attempts of one job can send their request.
C16_StandaloneIgnoresGuard ==
    [][(pc = "guard" /\ mode = "standalone") =>
          /\ pc' = "validate"
          /\ error' = NoError
          /\ env' = env
          /\ numRequests' = numRequests]_vars

\* two standalone requests sent in a job whose sentinel is set
C16_Witness ==
    /\ mode = "standalone"
    /\ pc = "returned"
    /\ env["CODEQL_UPLOAD_SARIF"] = "CODEQL_UPLOAD_SARIF"
    /\ numRequests["standalone"] = 2
    /\ Len(requests) = 1

C18_CountIsSumOverRuns ==
    /\ \A f \in Files \cup CombineFiles :
         /\ countResultsInSarif(readFileSync(f))
              = SumSeq([i \in 1..Len(f.runs) |-> Len(f.runs[i].results)])
         /\ countResultsInSarif(readFileSync(f)) >= 0
         /\ f.runs = <<>> => countResultsInSarif(readFileSync(f)) = 0
    /\ countResultsInSarif(readFileSync(FileC)) = 5
    /\ pc = "returned" =>
         result[1].num_results_in_sarif
            = SumSeq([i \in 1..Len(sarifFiles) |->
                         SumSeq([j \in 1..Len(sarifFiles[i].runs) |->
                                    Len(sarifFiles[i].runs[j].results)])])

\* an upload of c.sarif (5 results) and a.sarif (2 results) returns 7
C18_Witness ==
    /\ pc = "returned"
    /\ sarifFiles = <<FileC, FileA>>
    /\ result[1].num_results_in_sarif = 7

\* C19: every request sent carries the payload of the mode of its endpoint:
\* the actions fields go to PUT .../code-scanning/analysis and nowhere else,
\* the standalone fields, tool_name being the first tool name alone, go to
\* POST .../code-scanning/sarifs and nowhere else.
C19_PayloadAgreesWithEndpoint ==
    \A i \in 1..Len(requests) :
        LET r == requests[i]
            actionsShaped == DOMAIN r.data =
                {"commit_oid", "ref", "analysis_key", "analysis_name", "sarif",
                 "workflow_run_id", "checkout_uri", "environment", "started_at",
                 "tool_names"}
            standaloneShaped == DOMAIN r.data =
                {"commit_sha", "ref", "sarif", "checkout_uri", "tool_name"}
        IN /\ actionsShaped \/ standaloneShaped
           /\ actionsShaped <=> r.url = "PUT /repos/:owner/:repo/code-scanning/analysis"
           /\ standaloneShaped <=> r.url = "POST /repos/:owner/:repo/code-scanning/sarifs"
           /\ actionsShaped <=> mode = "actions"
           /\ standaloneShaped => r.data.tool_name = sarifFiles[1].runs[1].tool

\* a standalone request for files of two tools: only the first is named
C19_Witness ==
    /\ mode = "standalone"
    /\ sarifFiles = <<FileA, FileB>>
    /\ toolNames = <<"codeql", "eslint">>
    /\ Len(requests) = 1
    /\ requests[1].url = "POST /repos/:owner/:repo/code-scanning/sarifs"
    /\ requests[1].data.tool_name = "codeql"

\* C20: a call of upload that throws before uploadFiles starts throws the
\* path or the no-files error, whether the sentinel is set or not, and
\* leaves the environment, the sentinel with it, and the requests of the job
\* as they were.
C20_PathErrorsBeforeGuard ==
    [][(Quiescent /\ pc' = "threw" /\ trace' = <<>>) =>
          /\ error' \in {PathError, NoFilesError}
          /\ env' = env
          /\ numRequests' = numRequests
          /\ requests' = <<>>]_vars

\* the no-files error of an actions-mode call made with the sentinel set
C20_Witness ==
    /\ mode = "actions"
    /\ pc = "threw"
    /\ trace = <<>>
    /\ error = NoFilesError
    /\ env["CODEQL_UPLOAD_SARIF"] = "CODEQL_UPLOAD_SARIF"

\* C21: the analysis key of a job is resolved through the API at most once.
\* A call of getAnalysisKey that finds no key exported and succeeds has
\* issued the two GET requests and exports workflowPath:jobName; one that
\* fails exports nothing.  Once a key is exported it never changes, and every
\* later call, made on its own or by createStatusReportBase, returns it
\* without a request.
C21_KeyResolvedAtMostOnce ==
    [][LET before == env["CODEQL_ACTION_ANALYSIS_KEY"]
           after == env'["CODEQL_ACTION_ANALYSIS_KEY"]
       IN /\ before # Undefined => after = before
          /\ after # before => (keyCall' # keyCall \/ report' # report)
          /\ (before # Undefined /\ keyCall' # keyCall) =>
                 /\ ~keyCall'.threw
                 /\ keyCall'.requests = 0
                 /\ keyCall'.value = before
          /\ (before # Undefined /\ report' # report) =>
                 /\ report'.apiRequests = 0
                 /\ report'.value # <<>> => report'.value[1].analysis_key = before
          /\ (before = Undefined /\ keyCall' # keyCall /\ ~keyCall'.threw) =>
                 /\ keyCall'.requests = 2
                 /\ keyCall'.value = ".github/workflows/codeql.yml:analyze"
                 /\ after = keyCall'.value
          /\ (before = Undefined /\ keyCall' # keyCall /\ keyCall'.threw) =>
                 /\ keyCall'.requests <= 2
                 /\ keyCall'.value = Undefined
                 /\ after = Undefined
          /\ (before = Undefined /\ report' # report) =>
                 IF report'.apiRequests = 2 /\ report'.error \notin
                        {TransportError, <<"GITHUB_JOB", "environment variable must be set">>}
                 THEN after = ".github/workflows/codeql.yml:analyze"
                 ELSE after = Undefined]_vars

\* createStatusReportBase resolved the key with two requests; the call of
\* getAnalysisKey after it returned the key without a request
C21_Witness ==
    /\ report.called
    /\ report.apiRequests = 2
    /\ report.value # <<>>
    /\ keyCall.called
    /\ ~keyCall.threw
    /\ keyCall.requests = 0
    /\ keyCall.value = report.value[1].analysis_key
    /\ env["CODEQL_ACTION_ANALYSIS_KEY"] = ".github/workflows/codeql.yml:analyze"

====
